---- MODULE Spec2Model ----
(***************************************************************************)
(* Gestor de biblioteca (Gestor-Biblioteca.py): the catalogue manager      *)
(* Biblioteca with its two lists libros and prestamos, the whole-file      *)
(* JSON persistence (guardar_datos / cargar_datos), the fine computation   *)
(* Prestamo.calcular_multa and the detached notification tasks.            *)
(*                                                                         *)
(* Dates are day numbers counted from the day the program is started      *)
(* (FechaInicio); money is counted in hundredths (0.50 = 50); a text typed *)
(* by the user (a title, an author, a search value) is the sequence of     *)
(* its characters.                                                         *)
(***************************************************************************)
EXTENDS Integers, Sequences, FiniteSets, TLC

\* ------------------------------------------------------------------ bounds
MaxPrestamos == 2
MaxDia == 15
MaxDiaMulta == 35
MaxCatalogo == 2

\* ------------------------------------------------- inputs of the operations
IDs == {1, 2}
Usuarios == {"alice", "bob"}
Titulos == {<<"X">>}
Autores == {<<"Y">>}
Stocks == {-1, 0, 2}
Escrituras == {"ok", "open_falla", "write_falla"}

\* ------------------------------------------------------ program constants
DIAS_PRESTAMO == 14
MULTA_DIARIA == 50
FechaInicio == <<2024, 2, 10>>
Saltos == {DIAS_PRESTAMO, DIAS_PRESTAMO + 1}

VARIABLES
    libros,      \* Biblioteca.libros: sequence of Libro records
    prestamos,   \* Biblioteca.prestamos: sequence of Prestamo records
    archivo,     \* biblioteca.json
    hoy,         \* datetime.now().date(), as a day number
    tareas,      \* notification tasks created and not yet finished
    alta,        \* history: alta[i] is the stock libros[i] entered the catalogue with
    op           \* the last step taken: operation, arguments, return value, output

vars == <<libros, prestamos, archivo, hoy, tareas, alta, op>>

\* ------------------------------------------------------------ record types
Libro(id, titulo, autor, stock) ==
    [id |-> id, titulo |-> titulo, autor |-> autor, stock |-> stock]

Prestamo(libro_id, usuario, ahora) ==
    [libro_id |-> libro_id, usuario |-> usuario,
     fecha_prestamo |-> ahora,
     fecha_devolucion |-> ahora + DIAS_PRESTAMO,
     devuelto |-> FALSE]

Max(a, b) == IF a >= b THEN a ELSE b

\* faulty variants of the fine, used to test what the properties below detect
calcular_multa_desde_prestamo(p, ahora) ==
    IF p.devuelto THEN 0
    ELSE IF ahora <= p.fecha_devolucion THEN 0
    ELSE Max(0, ahora - p.fecha_prestamo) * MULTA_DIARIA

calcular_multa_fija(p, ahora) ==
    IF p.devuelto THEN 0
    ELSE IF ahora <= p.fecha_devolucion THEN 0
    ELSE MULTA_DIARIA

calcular_multa(p, ahora) ==
    IF p.devuelto THEN 0
    ELSE IF ahora <= p.fecha_devolucion THEN 0
    ELSE Max(0, ahora - p.fecha_devolucion) * MULTA_DIARIA

\* ------------------------------------------------- dates in the data file
EsBisiesto(y) == (y % 4 = 0 /\ y % 100 # 0) \/ y % 400 = 0

DiasDelMes(y, m) ==
    IF m = 2 THEN (IF EsBisiesto(y) THEN 29 ELSE 28)
    ELSE IF m \in {4, 6, 9, 11} THEN 30 ELSE 31

\* the calendar date d days after day 0 of month m of year y, d any integer
RECURSIVE Normaliza(_, _, _)
Normaliza(y, m, d) ==
    IF d < 1
    THEN IF m = 1 THEN Normaliza(y - 1, 12, d + DiasDelMes(y - 1, 12))
         ELSE Normaliza(y, m - 1, d + DiasDelMes(y, m - 1))
    ELSE IF d <= DiasDelMes(y, m) THEN <<y, m, d>>
    ELSE IF m = 12 THEN Normaliza(y + 1, 1, d - DiasDelMes(y, m))
    ELSE Normaliza(y, m + 1, d - DiasDelMes(y, m))

RECURSIVE DiasAntesDelMes(_, _)
DiasAntesDelMes(y, m) ==
    IF m = 1 THEN 0 ELSE DiasAntesDelMes(y, m - 1) + DiasDelMes(y, m - 1)

DiasAntesDelAnio(y) ==
    365 * (y - 1) + ((y - 1) \div 4) - ((y - 1) \div 100) + ((y - 1) \div 400)

\* date.toordinal(): days since 0001-01-01, that day being 1
Ordinal(t) == DiasAntesDelAnio(t[1]) + DiasAntesDelMes(t[1], t[2]) + t[3]

\* date.strftime('%Y-%m-%d'): the calendar date of day number n
strftime(n) == Normaliza(FechaInicio[1], FechaInicio[2], FechaInicio[3] + n)

\* datetime.strptime(s, '%Y-%m-%d').date(): the day number of a calendar date
strptime(t) == Ordinal(t) - Ordinal(FechaInicio)

\* ------------------------------------------------------------ persistence
to_dict(l) == [id |-> l.id, titulo |-> l.titulo, autor |-> l.autor, stock |-> l.stock]

prestamo_a_dict(p) ==
    [libro_id |-> p.libro_id, usuario |-> p.usuario,
     fecha_prestamo |-> strftime(p.fecha_prestamo),
     fecha_devolucion |-> strftime(p.fecha_devolucion),
     devuelto |-> p.devuelto]

Datos(libs, ps) ==
    [libros |-> [i \in 1..Len(libs) |-> to_dict(libs[i])],
     prestamos |-> [k \in 1..Len(ps) |-> prestamo_a_dict(ps[k])]]

SinDatos == [libros |-> <<>>, prestamos |-> <<>>]

ArchivoAusente == [estado |-> "ausente", datos |-> SinDatos]
ArchivoCorrupto == [estado |-> "corrupto", datos |-> SinDatos]
ArchivoJson(d) == [estado |-> "json", datos |-> d]

\* faulty variant of the save, used to test what the properties below detect
guardar_datos_sin_prestamos(libs, ps, arch, w) ==
    IF w = "ok" THEN ArchivoJson(Datos(libs, <<>>))
    ELSE IF w = "open_falla" THEN arch
    ELSE ArchivoCorrupto

\* The file after guardar_datos: written whole, or untouched when open() raises,
\* or truncated when the write after open(..., 'w') raises.
guardar_datos(libs, ps, arch, w) ==
    IF w = "ok" THEN ArchivoJson(Datos(libs, ps))
    ELSE IF w = "open_falla" THEN arch
    ELSE ArchivoCorrupto

dict_a_libro(d) == Libro(d.id, d.titulo, d.autor, d.stock)

\* faulty variant of the loan loader, used to test what the properties below detect
dict_a_prestamo_sin_vencimiento(d, ahora) ==
    [Prestamo(d.libro_id, d.usuario, ahora) EXCEPT
        !.fecha_prestamo = strptime(d.fecha_prestamo),
        !.devuelto = d.devuelto]

\* Prestamo(libro_id, usuario) built on the day of loading, its dates and flag
\* then overwritten from the file
dict_a_prestamo(d, ahora) ==
    [Prestamo(d.libro_id, d.usuario, ahora) EXCEPT
        !.fecha_prestamo = strptime(d.fecha_prestamo),
        !.fecha_devolucion = strptime(d.fecha_devolucion),
        !.devuelto = d.devuelto]

\* a date text that strptime accepts
FechaValida(t) ==
    /\ t[1] \in 1..9999
    /\ t[2] \in 1..12
    /\ t[3] \in 1..DiasDelMes(t[1], t[2])

\* the exception raised while reading one record, "" when none is
ErrorLibro(d) ==
    IF {"id", "titulo", "autor", "stock"} \subseteq DOMAIN d THEN "" ELSE "KeyError"

ErrorPrestamo(d) ==
    IF ~({"libro_id", "usuario"} \subseteq DOMAIN d) THEN "KeyError"
    ELSE IF "fecha_prestamo" \notin DOMAIN d THEN "KeyError"
    ELSE IF ~FechaValida(d.fecha_prestamo) THEN "ValueError"
    ELSE IF "fecha_devolucion" \notin DOMAIN d THEN "KeyError"
    ELSE IF ~FechaValida(d.fecha_devolucion) THEN "ValueError"
    ELSE IF "devuelto" \notin DOMAIN d THEN "KeyError"
    ELSE ""

\* data.get('libros', []) and data.get('prestamos', [])
LibrosDe(arch) == IF "libros" \in DOMAIN arch.datos THEN arch.datos.libros ELSE <<>>

PrestamosDe(arch) == IF "prestamos" \in DOMAIN arch.datos THEN arch.datos.prestamos ELSE <<>>

LibrosLegibles(arch) == \A i \in 1..Len(LibrosDe(arch)) : ErrorLibro(LibrosDe(arch)[i]) = ""

\* how many loan records are read before one raises
PrestamosLeidos(arch) ==
    LET ps == PrestamosDe(arch)
        malos == {k \in 1..Len(ps) : ErrorPrestamo(ps[k]) # ""}
    IN IF malos = {} THEN Len(ps)
       ELSE (CHOOSE k \in malos : \A j \in malos : k <= j) - 1

\* cargar_datos: the exception that leaves it, "" when it returns
error_de_carga(arch) ==
    IF arch.estado = "json_lista" THEN "AttributeError"
    ELSE IF arch.estado # "json" THEN ""
    ELSE IF ~LibrosLegibles(arch)
    THEN "KeyError"
    ELSE IF PrestamosLeidos(arch) < Len(PrestamosDe(arch))
    THEN ErrorPrestamo(PrestamosDe(arch)[PrestamosLeidos(arch) + 1])
    ELSE ""

\* cargar_datos: the two lists a new Biblioteca holds for a given file; when a
\* record raises, self.libros is assigned only if every book was read and
\* self.prestamos holds the loans appended before the bad one
cargar_libros(arch) ==
    IF arch.estado = "json" /\ LibrosLegibles(arch)
    THEN [i \in 1..Len(LibrosDe(arch)) |-> dict_a_libro(LibrosDe(arch)[i])]
    ELSE <<>>

cargar_prestamos(arch, ahora) ==
    IF arch.estado = "json" /\ LibrosLegibles(arch)
    THEN [k \in 1..PrestamosLeidos(arch) |-> dict_a_prestamo(PrestamosDe(arch)[k], ahora)]
    ELSE <<>>

\* ---------------------------------------------------------------- lookups
\* faulty variants of the lookups, used to test what the properties below detect
IdExisteUltimo(libs, id) == Len(libs) > 0 /\ libs[Len(libs)].id = id

IdExistePrimero(libs, id) == Len(libs) > 0 /\ libs[1].id = id

IdExiste(libs, id) == \E i \in 1..Len(libs) : libs[i].id = id

IndiceLibroCualquiera(libs, libro_id) == IF Len(libs) > 0 THEN 1 ELSE 0

\* next((l for l in libros if l.id == libro_id), None), as an index; 0 is None
IndiceLibro(libs, libro_id) ==
    IF \E i \in 1..Len(libs) : libs[i].id = libro_id
    THEN CHOOSE i \in 1..Len(libs) :
            /\ libs[i].id = libro_id
            /\ \A j \in 1..(i - 1) : libs[j].id # libro_id
    ELSE 0

Coincide(p, libro_id, usuario) ==
    p.libro_id = libro_id /\ p.usuario = usuario /\ ~p.devuelto

prestamo_activo_devuelto(ps, libro_id, usuario) ==
    \E i \in 1..Len(ps) :
        ps[i].libro_id = libro_id /\ ps[i].usuario = usuario /\ ps[i].devuelto

prestamo_activo(ps, libro_id, usuario) ==
    \E i \in 1..Len(ps) : Coincide(ps[i], libro_id, usuario)

IndicePrestamoUltimo(ps, libro_id, usuario) ==
    IF \E i \in 1..Len(ps) : Coincide(ps[i], libro_id, usuario)
    THEN CHOOSE i \in 1..Len(ps) :
            /\ Coincide(ps[i], libro_id, usuario)
            /\ \A j \in (i + 1)..Len(ps) : ~Coincide(ps[j], libro_id, usuario)
    ELSE 0

\* next((p for p in prestamos if ...), None), as an index; 0 is None
IndicePrestamo(ps, libro_id, usuario) ==
    IF \E i \in 1..Len(ps) : Coincide(ps[i], libro_id, usuario)
    THEN CHOOSE i \in 1..Len(ps) :
            /\ Coincide(ps[i], libro_id, usuario)
            /\ \A j \in 1..(i - 1) : ~Coincide(ps[j], libro_id, usuario)
    ELSE 0

SinExistenciasNegativas(l) == l.stock < 0

SinExistencias(l) == l.stock <= 0

\* ------------------------------------------------------- the step record
\* What the last step was and what it gave back: the operation, its return value
\* ("OSError" when guardar_datos raised), the line it printed and, for a return,
\* the fine it computed; salida holds the lines a listing printed or the list a
\* search returned.
Paso(nombre, resultado, mensaje, multa) ==
    [nombre |-> nombre, resultado |-> resultado, mensaje |-> mensaje, multa |-> multa,
     salida |-> <<>>]

PasoSalida(nombre, resultado, mensaje, salida) ==
    [nombre |-> nombre, resultado |-> resultado, mensaje |-> mensaje, multa |-> 0,
     salida |-> salida]

\* ------------------------------------------------------------------ Init
\* Biblioteca(): the manager as constructed over the data file arch
Biblioteca(arch) ==
    /\ archivo = arch
    /\ libros = cargar_libros(arch)
    /\ hoy = 0
    /\ prestamos = cargar_prestamos(arch, hoy)
    /\ tareas = <<>>
    /\ alta = [i \in 1..Len(libros) |-> libros[i].stock]
    /\ op = Paso("cargar_datos",
                 IF error_de_carga(arch) = "" THEN "None" ELSE error_de_carga(arch),
                 IF arch.estado = "ausente" THEN "sin_datos_previos"
                 ELSE IF arch.estado = "corrupto" THEN "error_al_leer" ELSE "", 0)

\* the empty library: no data file yet
Init == Biblioteca(ArchivoAusente)

\* data files left by an earlier run or edited by hand
ArchivoHuerfano ==
    ArchivoJson(Datos(<<>>, <<Prestamo(1, "alice", -1)>>))

ArchivoRepetido ==
    ArchivoJson(Datos(<<Libro(1, <<"X">>, <<"Y">>, 0), Libro(2, <<"X">>, <<"Y">>, 2)>>,
                      <<Prestamo(1, "alice", -20), Prestamo(1, "alice", -1)>>))

ArchivosIniciales == {ArchivoHuerfano, ArchivoRepetido}

InitCarga == \E arch \in ArchivosIniciales : Biblioteca(arch)

\* main() catches ValueError alone: an OSError raised by guardar_datos leaves
\* main() and asyncio.run() cancels the tasks still pending; the process is over.
\* An exception that leaves cargar_datos leaves Biblioteca() and main() the same
\* way, and option 7 leaves the loop.
Excepciones == {"OSError", "KeyError", "ValueError", "AttributeError"}

EnMarcha == op.resultado \notin Excepciones /\ op.nombre # "salir"

\* --------------------------------------------------------------- actions
Fallo(nombre, mensaje) ==
    /\ op' = Paso(nombre, "False", mensaje, 0)
    /\ UNCHANGED <<libros, prestamos, archivo, hoy, tareas, alta>>

\* faulty variant of the add, used to test what the properties below detect
agregar_libro_al_frente(libro) ==
    IF IdExiste(libros, libro.id)
    THEN Fallo("agregar_libro", "ya_existe")
    ELSE \E w \in Escrituras :
         /\ libros' = <<libro>> \o libros
         /\ alta' = <<libro.stock>> \o alta
         /\ archivo' = guardar_datos(libros', prestamos, archivo, w)
         /\ IF w = "ok"
            THEN /\ op' = Paso("agregar_libro", "True", "agregado", 0)
                 /\ tareas' = tareas
            ELSE /\ op' = Paso("agregar_libro", "OSError", "", 0)
                 /\ tareas' = <<>>
         /\ UNCHANGED <<prestamos, hoy>>

agregar_libro(libro) ==
    IF IdExiste(libros, libro.id)
    THEN Fallo("agregar_libro", "ya_existe")
    ELSE \E w \in Escrituras :
         /\ libros' = Append(libros, libro)
         /\ alta' = Append(alta, libro.stock)
         /\ archivo' = guardar_datos(libros', prestamos, archivo, w)
         /\ IF w = "ok"
            THEN /\ op' = Paso("agregar_libro", "True", "agregado", 0)
                 /\ tareas' = tareas
            ELSE /\ op' = Paso("agregar_libro", "OSError", "", 0)
                 /\ tareas' = <<>>
         /\ UNCHANGED <<prestamos, hoy>>

\* faulty variant of the decrement, used to test what the properties below detect
DescontarDos(l) == [l EXCEPT !.stock = l.stock - 2]

Descontar(l) == [l EXCEPT !.stock = l.stock - 1]

ReponerNada(l) == l

Reponer(l) == [l EXCEPT !.stock = l.stock + 1]

Notificacion(usuario, l, p) ==
    [usuario |-> usuario, titulo |-> l.titulo, fecha |-> p.fecha_devolucion]

prestar_libro(libro_id, usuario) ==
    LET i == IndiceLibro(libros, libro_id) IN
    IF prestamo_activo(prestamos, libro_id, usuario)
    THEN Fallo("prestar_libro", "ya_prestado")
    ELSE IF i = 0
    THEN Fallo("prestar_libro", "no_encontrado")
    ELSE IF SinExistencias(libros[i])
    THEN Fallo("prestar_libro", "sin_existencias")
    ELSE \E w \in Escrituras :
         /\ Len(prestamos) < MaxPrestamos
         /\ libros' = [libros EXCEPT ![i] = Descontar(libros[i])]
         /\ prestamos' = Append(prestamos, Prestamo(libro_id, usuario, hoy))
         /\ archivo' = guardar_datos(libros', prestamos', archivo, w)
         /\ IF w = "ok"
            THEN /\ op' = Paso("prestar_libro", "True", "prestado", 0)
                 /\ tareas' = Append(tareas,
                        Notificacion(usuario, libros'[i], prestamos'[Len(prestamos')]))
            ELSE /\ op' = Paso("prestar_libro", "OSError", "", 0)
                 /\ tareas' = <<>>
         /\ UNCHANGED <<hoy, alta>>

devolver_libro(libro_id, usuario) ==
    LET k == IndicePrestamo(prestamos, libro_id, usuario)
        i == IndiceLibro(libros, libro_id)
    IN
    IF k = 0
    THEN Fallo("devolver_libro", "prestamo_no_encontrado")
    ELSE IF i = 0
    THEN Fallo("devolver_libro", "no_encontrado")
    ELSE \E w \in Escrituras :
         /\ prestamos' = [prestamos EXCEPT ![k].devuelto = TRUE]
         /\ libros' = [libros EXCEPT ![i] = Reponer(libros[i])]
         /\ archivo' = guardar_datos(libros', prestamos', archivo, w)
         /\ IF w = "ok"
            THEN /\ LET multa == calcular_multa(prestamos'[k], hoy) IN
                    op' = Paso("devolver_libro", "True",
                               IF multa > 0 THEN "devolucion_tardia" ELSE "devuelto", multa)
                 /\ tareas' = tareas
            ELSE /\ op' = Paso("devolver_libro", "OSError", "", 0)
                 /\ tareas' = <<>>
         /\ UNCHANGED <<hoy, alta>>

\* Notificador.enviar_notificacion: the oldest task wakes from its sleep and prints
\* faulty variant of the notification task, used to test what the properties
\* below detect
enviar_notificacion_que_guarda ==
    /\ tareas # <<>>
    /\ tareas' = Tail(tareas)
    /\ archivo' = ArchivoJson(Datos(libros, <<>>))
    /\ op' = Paso("enviar_notificacion", "None", "notificacion", 0)
    /\ UNCHANGED <<libros, prestamos, hoy, alta>>

enviar_notificacion ==
    /\ tareas # <<>>
    /\ tareas' = Tail(tareas)
    /\ op' = Paso("enviar_notificacion", "None", "notificacion", 0)
    /\ UNCHANGED <<libros, prestamos, archivo, hoy, alta>>

\* the calendar date moves on between two operations
AvanzarDia(s) ==
    /\ hoy + s <= MaxDia
    /\ hoy' = hoy + s
    /\ op' = Paso("avanzar_dia", "None", "", 0)
    /\ UNCHANGED <<libros, prestamos, archivo, tareas, alta>>

listar_libros ==
    /\ op' = IF libros = <<>>
             THEN Paso("listar_libros", "None", "no_hay_libros", 0)
             ELSE PasoSalida("listar_libros", "None", "catalogo", libros)
    /\ UNCHANGED <<libros, prestamos, archivo, hoy, tareas, alta>>

\* ------------------------------------------------------------ buscar_libro
\* str.lower() on the letters used here
Mayusculas == <<"A", "B", "C", "D", "I", "K", "L", "N", "O", "R", "S", "T", "U", "X", "Y">>
Minusculas == <<"a", "b", "c", "d", "i", "k", "l", "n", "o", "r", "s", "t", "u", "x", "y">>

minuscula(c) ==
    IF \E i \in 1..Len(Mayusculas) : Mayusculas[i] = c
    THEN Minusculas[CHOOSE i \in 1..Len(Mayusculas) : Mayusculas[i] = c]
    ELSE c

lower(t) == [i \in 1..Len(t) |-> minuscula(t[i])]

\* int(valor): blanks stripped, an optional sign, then decimal digits, with
\* single underscores allowed between digits
Digitos == <<"0", "1", "2", "3", "4", "5", "6", "7", "8", "9">>

EsDigito(c) == \E i \in 1..Len(Digitos) : Digitos[i] = c

ValorDigito(c) == (CHOOSE i \in 1..Len(Digitos) : Digitos[i] = c) - 1

RECURSIVE Recortar(_)
Recortar(t) ==
    IF t = <<>> THEN t
    ELSE IF t[1] = " " THEN Recortar(Tail(t))
    ELSE IF t[Len(t)] = " " THEN Recortar(SubSeq(t, 1, Len(t) - 1))
    ELSE t

SinSigno(t) == IF t # <<>> /\ t[1] \in {"+", "-"} THEN Tail(t) ELSE t

CifrasValidas(d) ==
    /\ d # <<>>
    /\ \A i \in 1..Len(d) :
          \/ EsDigito(d[i])
          \/ /\ d[i] = "_"
             /\ i > 1
             /\ i < Len(d)
             /\ EsDigito(d[i - 1])
             /\ EsDigito(d[i + 1])

RECURSIVE ValorCifras(_, _)
ValorCifras(d, acumulado) ==
    IF d = <<>> THEN acumulado
    ELSE IF d[1] = "_" THEN ValorCifras(Tail(d), acumulado)
    ELSE ValorCifras(Tail(d), 10 * acumulado + ValorDigito(d[1]))

\* faulty variant of int(), used to test what the properties below detect
entero_sin_recortar(t) ==
    IF CifrasValidas(SinSigno(t))
    THEN [ok |-> TRUE,
          valor |-> (IF t[1] = "-" THEN -1 ELSE 1) * ValorCifras(SinSigno(t), 0)]
    ELSE [ok |-> FALSE, valor |-> 0]

entero(t) ==
    LET r == Recortar(t) IN
    IF CifrasValidas(SinSigno(r))
    THEN [ok |-> TRUE,
          valor |-> (IF r[1] = "-" THEN -1 ELSE 1) * ValorCifras(SinSigno(r), 0)]
    ELSE [ok |-> FALSE, valor |-> 0]

CriterioId == <<"i", "d">>
CriterioTitulo == <<"t", "i", "t", "u", "l", "o">>
CriterioAutor == <<"a", "u", "t", "o", "r">>
CriterioStock == <<"s", "t", "o", "c", "k">>
CriteriosValidos == {CriterioId, CriterioTitulo, CriterioAutor, CriterioStock}

\* getattr(l, criterio)
Atributo(l, criterio) ==
    IF criterio = CriterioId THEN l.id
    ELSE IF criterio = CriterioTitulo THEN l.titulo
    ELSE IF criterio = CriterioAutor THEN l.autor
    ELSE l.stock

Filtrar(libs, criterio, valor) ==
    LET Igual(l) == Atributo(l, criterio) = valor IN SelectSeq(libs, Igual)

buscar_libro(criterio, valor) ==
    LET c == lower(criterio) IN
    /\ op' = IF c \notin CriteriosValidos
             THEN PasoSalida("buscar_libro", "lista", "criterio_invalido", <<>>)
             ELSE IF c \in {CriterioId, CriterioStock}
             THEN IF entero(valor).ok
                  THEN PasoSalida("buscar_libro", "lista", "",
                                  Filtrar(libros, c, entero(valor).valor))
                  ELSE PasoSalida("buscar_libro", "lista", "valor_invalido", <<>>)
             ELSE PasoSalida("buscar_libro", "lista", "", Filtrar(libros, c, valor))
    /\ UNCHANGED <<libros, prestamos, archivo, hoy, tareas, alta>>

\* option 7: main() returns and asyncio.run() cancels the tasks still pending
salir ==
    /\ op' = Paso("salir", "None", "hasta_pronto", 0)
    /\ tareas' = <<>>
    /\ UNCHANGED <<libros, prestamos, archivo, hoy, alta>>

\* one printed line of listar_prestamos_activos; the fine is computed for a late
\* loan only
LibroDesconocido == <<"Libro Desconocido">>

LineaPrestamo(p) ==
    LET i == IndiceLibro(libros, p.libro_id) IN
    [usuario |-> p.usuario,
     titulo |-> IF i = 0 THEN LibroDesconocido ELSE libros[i].titulo,
     fecha |-> p.fecha_devolucion,
     estado |-> IF hoy <= p.fecha_devolucion THEN "en_plazo" ELSE "atrasado",
     multa |-> IF hoy <= p.fecha_devolucion THEN 0 ELSE calcular_multa(p, hoy)]

PrestamosActivos(ps) == LET NoDevuelto(p) == ~p.devuelto IN SelectSeq(ps, NoDevuelto)

listar_prestamos_activos ==
    LET activos == PrestamosActivos(prestamos) IN
    /\ op' = IF activos = <<>>
             THEN Paso("listar_prestamos_activos", "None", "no_hay_prestamos", 0)
             ELSE PasoSalida("listar_prestamos_activos", "None", "prestamos_activos",
                             [j \in 1..Len(activos) |-> LineaPrestamo(activos[j])])
    /\ UNCHANGED <<libros, prestamos, archivo, hoy, tareas, alta>>

\* the next calendar day
PasarDia ==
    /\ EnMarcha
    /\ hoy < MaxDiaMulta
    /\ hoy' = hoy + 1
    /\ op' = Paso("avanzar_dia", "None", "", 0)
    /\ UNCHANGED <<libros, prestamos, archivo, tareas, alta>>

Agregar == EnMarcha /\ \E id \in IDs, t \in Titulos, a \in Autores, s \in Stocks :
              agregar_libro(Libro(id, t, a, s))

Prestar == EnMarcha /\ \E id \in IDs, u \in Usuarios : prestar_libro(id, u)

Devolver == EnMarcha /\ \E id \in IDs, u \in Usuarios : devolver_libro(id, u)

Notificar == EnMarcha /\ enviar_notificacion

Avanzar == EnMarcha /\ \E s \in Saltos : AvanzarDia(s)

Next == Agregar \/ Prestar \/ Devolver \/ Notificar \/ Avanzar

Spec == Init /\ [][Next]_vars

SpecCarga == InitCarga /\ [][Next]_vars

\* ------------------------------------------------- starting over any file
\* parseable JSON that is not what guardar_datos writes
ArchivoSinCampo ==
    ArchivoJson([libros |-> <<to_dict(Libro(1, <<"X">>, <<"Y">>, 0))>>,
                 prestamos |-> <<prestamo_a_dict(Prestamo(1, "alice", -20)),
                                 [libro_id |-> 1, usuario |-> "bob",
                                  fecha_prestamo |-> strftime(-1),
                                  fecha_devolucion |-> strftime(13)]>>])

ArchivoLibroSinStock ==
    ArchivoJson([libros |-> <<[id |-> 1, titulo |-> <<"X">>, autor |-> <<"Y">>]>>,
                 prestamos |-> <<>>])

ArchivoFechaMala ==
    ArchivoJson([libros |-> <<to_dict(Libro(1, <<"X">>, <<"Y">>, 1))>>,
                 prestamos |-> <<[libro_id |-> 1, usuario |-> "alice",
                                  fecha_prestamo |-> <<2024, 2, 9>>,
                                  fecha_devolucion |-> <<2024, 2, 30>>,
                                  devuelto |-> FALSE]>>])

ArchivoLista == [estado |-> "json_lista", datos |-> SinDatos]

ArchivosArranque ==
    {ArchivoCorrupto, ArchivoRepetido, ArchivoSinCampo, ArchivoLibroSinStock,
     ArchivoFechaMala, ArchivoLista}

InitArranque == \E arch \in ArchivosArranque : Biblioteca(arch)

SpecArranque == InitArranque /\ [][Next]_vars

\* --------------------------------------------------- the whole menu
\* The seven options of main() and the notification tasks, within one day.
\* Option 3 hands buscar_libro one of the four criteria and the text typed
ValoresMenu == {<<"1">>, <<"X">>}

ListarLibros == EnMarcha /\ listar_libros

ListarPrestamos == EnMarcha /\ listar_prestamos_activos

BuscarMenu == EnMarcha /\ \E c \in CriteriosValidos, v \in ValoresMenu : buscar_libro(c, v)

Salir == EnMarcha /\ salir

NextMenu ==
    \/ Agregar
    \/ ListarLibros
    \/ BuscarMenu
    \/ Prestar
    \/ Devolver
    \/ ListarPrestamos
    \/ Salir
    \/ Notificar

SpecMenu == Init /\ [][NextMenu]_vars

\* ---------------------------------------------------- searching a catalogue
\* catalogues read from a data file, and buscar_libro called with any criterio
LibrosBuscar ==
    {Libro(1, <<"1">>, <<"Y">>, 2), Libro(2, <<"X">>, <<"Y">>, 1),
     Libro(10, <<"x">>, <<"2">>, -1), Libro(1, <<"X">>, <<"X">>, 10)}

CatalogosBuscar ==
    UNION {[1..n -> LibrosBuscar] : n \in 0..MaxCatalogo}

Criterios ==
    CriteriosValidos \cup {<<"I", "D">>, <<"T", "i", "t", "u", "l", "o">>,
                           <<"i", "s", "b", "n">>}

Valores ==
    {<<"1">>, <<"0", "1">>, <<" ", "1", " ">>, <<"+", "1">>, <<"-", "1">>,
     <<"1", "_", "0">>, <<"1", "_">>, <<"1", ".", "0">>, <<"X">>, <<>>}

InitBuscar == \E cat \in CatalogosBuscar : Biblioteca(ArchivoJson(Datos(cat, <<>>)))

Buscar == EnMarcha /\ \E c \in Criterios, v \in Valores : buscar_libro(c, v)

NextBuscar == Buscar \/ ListarLibros

SpecBuscar == InitBuscar /\ [][NextBuscar]_vars

\* ---------------------------------------------- the fine as the days go by
\* data files holding one loan, returned or not, made on or before day 0
FechasMulta == {-34, -15, -14, 0}

ArchivoMulta(dia, devuelto) ==
    ArchivoJson(Datos(<<Libro(1, <<"X">>, <<"Y">>, 0)>>,
                      <<[Prestamo(1, "alice", dia) EXCEPT !.devuelto = devuelto]>>))

InitMulta == \E dia \in FechasMulta, devuelto \in BOOLEAN :
                Biblioteca(ArchivoMulta(dia, devuelto))

NextMulta == ListarPrestamos \/ PasarDia \/ Devolver

SpecMulta == InitMulta /\ [][NextMulta]_vars

\* =============================================================== properties
\* Stated over the lists themselves, not through the manager's own lookups.
Activo(p, id, u) == p.libro_id = id /\ p.usuario = u /\ ~p.devuelto

HayActivo(ps, id, u) == \E k \in 1..Len(ps) : Activo(ps[k], id, u)

HayLibro(libs, id) == \E i \in 1..Len(libs) : libs[i].id = id

ActivosDe(id) ==
    Cardinality({k \in 1..Len(prestamos) :
                    prestamos[k].libro_id = id /\ ~prestamos[k].devuelto})

Persistido == archivo = ArchivoJson(Datos(libros, prestamos))

\* C1: stock conservation. From the empty library, every book's stock equals the
\* stock it was added with minus the number of unreturned loans of its id.
C1_ConservacionStock ==
    \A i \in 1..Len(libros) : libros[i].stock = alta[i] - ActivosDe(libros[i].id)

C1_Testigo ==
    \E i \in 1..Len(libros) :
        /\ ActivosDe(libros[i].id) = 1
        /\ \E k \in 1..Len(prestamos) :
               prestamos[k].libro_id = libros[i].id /\ prestamos[k].devuelto

\* C2: from the empty library, for every (book id, borrower) pair at most one
\* loan is unreturned.
C2_UnSoloPrestamoActivo ==
    \A k1, k2 \in 1..Len(prestamos) :
        (/\ prestamos[k1].libro_id = prestamos[k2].libro_id
         /\ prestamos[k1].usuario = prestamos[k2].usuario
         /\ ~prestamos[k1].devuelto
         /\ ~prestamos[k2].devuelto) => k1 = k2

C2_Testigo ==
    /\ Len(prestamos) = 2
    /\ prestamos[1].libro_id = prestamos[2].libro_id
    /\ prestamos[1].usuario = prestamos[2].usuario
    /\ prestamos[1].devuelto
    /\ ~prestamos[2].devuelto

\* C3: every mutating operation is all-or-nothing with respect to persistence,
\* a failing file write included: either it succeeds with the file holding the
\* new lists, or it fails with the lists in memory exactly as before the call.
C3_TodoONada ==
    [][op'.nombre \in {"agregar_libro", "prestar_libro", "devolver_libro"} =>
         \/ op'.resultado = "True" /\ Persistido'
         \/ op'.resultado # "True" /\ libros' = libros /\ prestamos' = prestamos]_vars

\* C4: a successful return of an overdue loan reports the fine
\* (today - due date) * 0.50, strictly positive; a return on or before the due
\* date reports none.
C4_MultaAlDevolver ==
    [][\A id \in IDs, u \in Usuarios :
         (devolver_libro(id, u) /\ op'.resultado = "True") =>
            \E k \in 1..Len(prestamos) :
               /\ Activo(prestamos[k], id, u)
               /\ \A j \in 1..(k - 1) : ~Activo(prestamos[j], id, u)
               /\ IF hoy > prestamos[k].fecha_devolucion
                  THEN /\ op'.multa = (hoy - prestamos[k].fecha_devolucion) * MULTA_DIARIA
                       /\ op'.multa > 0
                       /\ op'.mensaje = "devolucion_tardia"
                  ELSE /\ op'.multa = 0
                       /\ op'.mensaje = "devuelto"]_vars

\* C5: prestar_libro returns False when the borrower has an unreturned loan of
\* the book, when no book has the id, and when the stock is <= 0; the books, the
\* loans and the file are then unchanged.
C5_PrestarFalla ==
    [][\A id \in IDs, u \in Usuarios :
         (/\ prestar_libro(id, u)
          /\ \/ HayActivo(prestamos, id, u)
             \/ ~HayLibro(libros, id)
             \/ \E i \in 1..Len(libros) : libros[i].id = id /\ libros[i].stock <= 0)
         => /\ op'.resultado = "False"
            /\ UNCHANGED <<libros, prestamos, archivo>>]_vars

C5_Testigo ==
    /\ op.nombre = "prestar_libro"
    /\ op.mensaje = "ya_prestado"
    /\ \E i \in 1..Len(libros) : libros[i].stock = alta[i] - 1

\* C6: from the empty library, whatever integer stock a book is added with,
\* every book's stock is non-negative.
C6_StockNoNegativo == \A i \in 1..Len(libros) : libros[i].stock >= 0

\* C7: agregar_libro with an id already in the catalogue returns False and leaves
\* catalogue, loans and file unchanged; with a fresh id it appends the book at
\* the end of the catalogue and, returning True, has written the file.
C7_AgregarLibro ==
    [][\A id \in IDs, t \in Titulos, a \in Autores, s \in Stocks :
         agregar_libro(Libro(id, t, a, s)) =>
            IF HayLibro(libros, id)
            THEN /\ op'.resultado = "False"
                 /\ UNCHANGED <<libros, prestamos, archivo>>
            ELSE /\ libros' = Append(libros, Libro(id, t, a, s))
                 /\ prestamos' = prestamos
                 /\ op'.resultado \in {"True", "OSError"}
                 /\ op'.resultado = "True" => Persistido']_vars

C7_Testigo ==
    /\ op.nombre = "agregar_libro"
    /\ op.mensaje = "ya_existe"
    /\ Len(libros) = 2

\* C8: from the empty library, no two books of the catalogue have the same id.
C8_IdUnico ==
    \A i, j \in 1..Len(libros) : libros[i].id = libros[j].id => i = j

C8_Testigo ==
    /\ Len(libros) = 2
    /\ op.nombre = "agregar_libro"
    /\ op.resultado = "True"

\* C9: a successful devolver_libro marks exactly the first unreturned loan, in
\* insertion order, of that book and borrower, adds exactly 1 to the stock of
\* the book with that id, and changes no other loan, book or field.
C9_DevolverExito ==
    [][\A id \in IDs, u \in Usuarios :
         (devolver_libro(id, u) /\ op'.resultado = "True") =>
            /\ \E k \in 1..Len(prestamos) :
                  /\ Activo(prestamos[k], id, u)
                  /\ \A j \in 1..(k - 1) : ~Activo(prestamos[j], id, u)
                  /\ prestamos' = [prestamos EXCEPT ![k].devuelto = TRUE]
            /\ \E i \in 1..Len(libros) :
                  /\ libros[i].id = id
                  /\ libros' = [libros EXCEPT ![i].stock = libros[i].stock + 1]
            /\ hoy' = hoy]_vars

C9_Testigo ==
    /\ op.nombre = "devolver_libro"
    /\ op.resultado = "True"
    /\ Len(prestamos) = 2
    /\ prestamos[1].libro_id = prestamos[2].libro_id
    /\ prestamos[1].usuario = prestamos[2].usuario
    /\ prestamos[1].devuelto
    /\ ~prestamos[2].devuelto
    /\ prestamos[2].fecha_prestamo < 0

\* C10: devolver_libro returns False when no unreturned loan of that book and
\* borrower exists, and when one exists but no book has the id; no returned
\* flag or stock changes and nothing is written.
C10_DevolverFalla ==
    [][\A id \in IDs, u \in Usuarios :
         (/\ devolver_libro(id, u)
          /\ ~HayActivo(prestamos, id, u) \/ ~HayLibro(libros, id))
         => /\ op'.resultado = "False"
            /\ UNCHANGED <<libros, prestamos, archivo>>]_vars

C10_Testigo ==
    /\ op.nombre = "devolver_libro"
    /\ op.mensaje = "no_encontrado"
    /\ \E k \in 1..Len(prestamos) : ~prestamos[k].devuelto

\* C11: for every loan and every current date the fine is 0 when the loan is
\* returned or the date is not past the due date, and otherwise exactly 50
\* hundredths per day past the due date; it is never negative, and an unreturned
\* loan 20 days overdue has fine 10.00. The fines a listing prints are these.
MultaEsperada(p, ahora) ==
    IF p.devuelto \/ ahora <= p.fecha_devolucion THEN 0
    ELSE (ahora - p.fecha_devolucion) * 50

C11_Multa ==
    /\ \A k \in 1..Len(prestamos) :
          LET p == prestamos[k]
              m == calcular_multa(p, hoy)
          IN /\ m = MultaEsperada(p, hoy)
             /\ m >= 0
             /\ (~p.devuelto /\ hoy - p.fecha_devolucion = 20) => m = 1000
    /\ op.nombre = "listar_prestamos_activos" =>
          /\ Len(op.salida) = Cardinality({k \in 1..Len(prestamos) : ~prestamos[k].devuelto})
          /\ \A j \in 1..Len(op.salida) :
                \E k \in 1..Len(prestamos) :
                   /\ ~prestamos[k].devuelto
                   /\ op.salida[j].fecha = prestamos[k].fecha_devolucion
                   /\ op.salida[j].multa = MultaEsperada(prestamos[k], hoy)

C11_Testigo ==
    /\ op.nombre = "listar_prestamos_activos"
    /\ Len(op.salida) = 1
    /\ hoy - prestamos[1].fecha_devolucion = 20
    /\ op.salida[1].multa = 1000

\* C12: for a loan that stays unreturned, from one day to the next the fine never
\* decreases, is 0 on every day up to the due date, and grows strictly on every
\* day past the due date.
C12_MultaMonotona ==
    [][\A k \in 1..Len(prestamos) :
         (/\ hoy' = hoy + 1
          /\ Len(prestamos') = Len(prestamos)
          /\ ~prestamos[k].devuelto
          /\ ~prestamos'[k].devuelto)
         => LET antes == calcular_multa(prestamos[k], hoy)
                despues == calcular_multa(prestamos'[k], hoy')
                vence == prestamos[k].fecha_devolucion
            IN /\ despues >= antes
               /\ hoy' <= vence => despues = 0
               /\ hoy' > vence => despues > antes]_vars

C12_Testigo ==
    /\ op.nombre = "avanzar_dia"
    /\ \E k \in 1..Len(prestamos) :
          /\ ~prestamos[k].devuelto
          /\ prestamos[k].fecha_prestamo = 0
          /\ hoy = prestamos[k].fecha_devolucion + 2

\* C13: round trip. For every reachable state, the file guardar_datos writes,
\* read by a new manager on that day or any later one, gives back the same books
\* and the same loans, element by element and in the same order.
C13_IdaYVuelta ==
    LET escrito == guardar_datos(libros, prestamos, archivo, "ok") IN
    \A dia \in hoy..(MaxDia + 1) :
        /\ error_de_carga(escrito) = ""
        /\ cargar_libros(escrito) = libros
        /\ cargar_prestamos(escrito, dia) = prestamos

C13_Testigo ==
    /\ Len(libros) = 2
    /\ Len(prestamos) = 2
    /\ prestamos[1].devuelto
    /\ strftime(prestamos[1].fecha_devolucion)[2] = 2
    /\ strftime(prestamos[2].fecha_devolucion)[2] = 3
    /\ hoy < MaxDia + 1
    /\ Persistido

\* C14: loading never fails fatally. With the file missing or its content
\* malformed in any way (not JSON, records missing fields, a wrong top-level
\* shape, an unparseable date) the manager starts with no books and no loans
\* and a warning.
C14_CargaNoFatal ==
    op.nombre = "cargar_datos" =>
        /\ op.resultado = "None"
        /\ archivo \in {ArchivoAusente, ArchivoCorrupto, ArchivoSinCampo,
                        ArchivoLibroSinStock, ArchivoFechaMala, ArchivoLista}
           => /\ libros = <<>>
              /\ prestamos = <<>>
              /\ op.mensaje \in {"sin_datos_previos", "error_al_leer"}

Mutadoras == {"agregar_libro", "prestar_libro", "devolver_libro"}

C15_Estado ==
    op.resultado \notin Excepciones =>
        IF archivo = ArchivoAusente
        THEN libros = <<>> /\ prestamos = <<>>
        ELSE Persistido

C15_Paso ==
    /\ op'.nombre \in Mutadoras /\ op'.resultado = "True"
       => /\ <<libros', prestamos'>> # <<libros, prestamos>>
          /\ archivo' = ArchivoJson(Datos(libros', prestamos'))
    /\ op'.nombre \notin Mutadoras \/ op'.resultado = "False"
       => archivo' = archivo /\ libros' = libros /\ prestamos' = prestamos

\* C15: from the empty library with no data file, while every write succeeds,
\* the file (once written) is the serialization of the books and loans in
\* memory; each successful agregar_libro, prestar_libro and devolver_libro
\* leaves the file equal to the serialization of the state after its mutation,
\* and failed or read-only operations leave the file as it was.
C15_ArchivoAlDia == []C15_Estado /\ [][C15_Paso]_vars

C15_Testigo ==
    /\ op.nombre = "devolver_libro"
    /\ op.resultado = "True"
    /\ \E k \in 1..Len(prestamos) : prestamos[k].devuelto
    /\ Persistido

C16_Prestar ==
    \A id \in IDs, u \in Usuarios :
        prestar_libro(id, u) /\ op'.resultado = "True"
        => /\ archivo' = ArchivoJson(Datos(libros', prestamos'))
           /\ HayActivo(prestamos', id, u)
           /\ Len(tareas') = Len(tareas) + 1
           /\ tareas'[Len(tareas')].usuario = u

C16_Tarea ==
    /\ Len(tareas') > Len(tareas)
       => /\ op'.nombre = "prestar_libro" /\ op'.resultado = "True"
          /\ Len(prestamos') = Len(prestamos) + 1
          /\ SubSeq(tareas', 1, Len(tareas)) = tareas
    /\ Len(tareas') < Len(tareas) /\ op'.resultado \notin Excepciones
       => /\ op'.nombre \in {"enviar_notificacion", "salir"}
          /\ UNCHANGED <<libros, prestamos, archivo>>
    /\ op'.nombre = "enviar_notificacion"
       => UNCHANGED <<libros, prestamos, archivo>>

\* C16: the notification is fire-and-forget. A successful prestar_libro has
\* written its loan to the file and returned True with its task still pending;
\* a task is created only by a successful prestar_libro, one per success; a
\* task that runs, in any order with later operations, or is cancelled at exit,
\* leaves books, loans and file untouched.
C16_Notificacion == [][C16_Prestar /\ C16_Tarea]_vars

C16_Testigo ==
    /\ op.nombre = "enviar_notificacion"
    /\ tareas # <<>>
    /\ Len(prestamos) = 2
    /\ \E k \in 1..Len(prestamos) : prestamos[k].devuelto
    /\ Persistido

C17_Paso ==
    \A id \in IDs, u \in Usuarios :
        prestar_libro(id, u) /\ op'.resultado = "True"
        => /\ Len(libros') = Len(libros)
           /\ \A i \in 1..Len(libros) :
                 IF libros[i].id = id
                 THEN /\ libros'[i].stock = libros[i].stock - 1
                      /\ libros'[i].id = libros[i].id
                      /\ libros'[i].titulo = libros[i].titulo
                      /\ libros'[i].autor = libros[i].autor
                 ELSE libros'[i] = libros[i]
           /\ Len(prestamos') = Len(prestamos) + 1
           /\ \A k \in 1..Len(prestamos) : prestamos'[k] = prestamos[k]
           /\ prestamos'[Len(prestamos')] =
                 [libro_id |-> id, usuario |-> u, fecha_prestamo |-> hoy,
                  fecha_devolucion |-> hoy + 14, devuelto |-> FALSE]

C17_Plazo ==
    \A k \in 1..Len(prestamos) :
        prestamos[k].fecha_devolucion = prestamos[k].fecha_prestamo + 14

\* C17: a successful prestar_libro(id, u) takes exactly 1 from that book's stock
\* and appends exactly one loan (id, u, loan date today, due date 14 days
\* later, not returned), leaving every other book and every existing loan as
\* it was; so every loan is due 14 days after its loan date in every state.
C17_PrestarExito == []C17_Plazo /\ [][C17_Paso]_vars

C17_Testigo ==
    /\ op.nombre = "prestar_libro"
    /\ op.resultado = "True"
    /\ Len(prestamos) = 2
    /\ Len(libros) = 2
    /\ prestamos[2].fecha_prestamo = hoy
    /\ hoy > 0
    /\ prestamos[1].devuelto

\* the integer each text of Valores stands for, where it stands for one
EnteroDe ==
    (<<"1">> :> 1) @@ (<<"0", "1">> :> 1) @@ (<<" ", "1", " ">> :> 1) @@
    (<<"+", "1">> :> 1) @@ (<<"-", "1">> :> -1) @@ (<<"1", "_", "0">> :> 10)

\* the field each text of Criterios names, read exactly and read without
\* regard to case
CampoExacto ==
    (<<"i", "d">> :> "id") @@ (<<"t", "i", "t", "u", "l", "o">> :> "titulo") @@
    (<<"a", "u", "t", "o", "r">> :> "autor") @@ (<<"s", "t", "o", "c", "k">> :> "stock")

CampoSinCaja ==
    CampoExacto @@ (<<"I", "D">> :> "id") @@
    (<<"T", "i", "t", "u", "l", "o">> :> "titulo")

Esperado(campos, c, v) ==
    LET PorId(l) == l.id = EnteroDe[v]
        PorStock(l) == l.stock = EnteroDe[v]
        PorTitulo(l) == l.titulo = v
        PorAutor(l) == l.autor = v
    IN
    IF c \notin DOMAIN campos THEN <<>>
    ELSE IF campos[c] = "titulo" THEN SelectSeq(libros, PorTitulo)
    ELSE IF campos[c] = "autor" THEN SelectSeq(libros, PorAutor)
    ELSE IF v \notin DOMAIN EnteroDe THEN <<>>
    ELSE IF campos[c] = "id" THEN SelectSeq(libros, PorId)
    ELSE SelectSeq(libros, PorStock)

C18_Paso(campos) ==
    \A c \in Criterios, v \in Valores :
        buscar_libro(c, v)
        => /\ UNCHANGED <<libros, prestamos, archivo, hoy, tareas, alta>>
           /\ op'.resultado \notin Excepciones
           /\ op'.salida = Esperado(campos, c, v)

\* C18 as stated: buscar_libro never raises and never changes state; for one
\* of the four field names it returns the books whose field equals the value
\* (read as an integer for id and stock) in catalogue order; for a numeric
\* field with a value that is no integer, or a field outside the four names,
\* it returns the empty list.
C18_Original == [][C18_Paso(CampoExacto)]_vars

\* C18 amended: the same, with the field name compared without regard to
\* case, so that "ID" or "Titulo" select the field as "id" or "titulo" do.
C18_Buscar == [][C18_Paso(CampoSinCaja)]_vars

C18_Testigo ==
    /\ op.nombre = "buscar_libro"
    /\ op.mensaje = ""
    /\ Len(libros) = 2
    /\ libros[1].id = 10
    /\ libros[2].id = 1
    /\ op.salida = <<libros[2]>>

C19_Paso ==
    /\ Len(libros') >= Len(libros)
    /\ \A i \in 1..Len(libros) :
          /\ libros'[i].id = libros[i].id
          /\ libros'[i].titulo = libros[i].titulo
          /\ libros'[i].autor = libros[i].autor
    /\ Len(prestamos') >= Len(prestamos)
    /\ \A k \in 1..Len(prestamos) :
          /\ prestamos'[k].libro_id = prestamos[k].libro_id
          /\ prestamos'[k].usuario = prestamos[k].usuario
          /\ prestamos'[k].fecha_prestamo = prestamos[k].fecha_prestamo
          /\ prestamos'[k].fecha_devolucion = prestamos[k].fecha_devolucion
          /\ prestamos[k].devuelto => prestamos'[k].devuelto

\* C19: across every step the lists of books and of loans never shrink or
\* reorder, a book's id, title and author and a loan's book id, borrower, loan
\* date and due date never change, and a returned loan stays returned.
C19_SoloAgregar == [][C19_Paso]_vars

C19_Testigo ==
    /\ Len(libros) = 2
    /\ Len(prestamos) = 2
    /\ prestamos[1].devuelto
    /\ ~prestamos[2].devuelto
    /\ prestamos[2].libro_id = prestamos[1].libro_id
    /\ prestamos[2].usuario = prestamos[1].usuario
    /\ libros[1].id = 2

C20_Estado ==
    /\ \A k \in 1..Len(prestamos) : HayLibro(libros, prestamos[k].libro_id)
    /\ op.nombre = "devolver_libro" => op.mensaje # "no_encontrado"
    /\ op.nombre = "listar_prestamos_activos"
       => \A j \in 1..Len(op.salida) : op.salida[j].titulo # LibroDesconocido

C20_Paso ==
    \A id \in IDs, u \in Usuarios :
        devolver_libro(id, u) /\ HayActivo(prestamos, id, u)
        => /\ op'.resultado \in {"True", "OSError"}
           /\ archivo' = ArchivoJson(Datos(libros', prestamos'))
              => op'.resultado = "True"
           /\ ~HayActivo(prestamos', id, u)

\* C20: from the empty library every loan's book id is the id of a book in the
\* catalogue, so devolver_libro never reports the book missing, a listing never
\* prints an unknown book, and a devolver_libro whose borrower holds the book
\* marks the loan returned and, its write done, returns True.
C20_Integridad == []C20_Estado /\ [][C20_Paso]_vars

C20_Testigo ==
    /\ op.nombre = "devolver_libro"
    /\ op.resultado = "True"
    /\ Len(libros) = 2
    /\ \E k \in 1..Len(prestamos) :
          prestamos[k].devuelto /\ prestamos[k].libro_id = libros[2].id
    /\ \E k \in 1..Len(prestamos) : ~prestamos[k].devuelto

====
